---- MODULE Spec2Model ----
(***************************************************************************)
(* AutoCheckRH: the crawler run (read_input_csv, the worker pool running   *)
(* fetch_url with its per-host throttle, the collecting loop of main) and  *)
(* the reconciliation functions of compare_planilha (normalize_num,        *)
(* find_best).                                                             *)
(*                                                                         *)
(* Time is counted in ticks of the wall clock.  A text cell is a record    *)
(* [pad, scheme, host, path]: pad says that the text carries surrounding   *)
(* blanks or invisible characters, scheme = "none" that the text has no    *)
(* scheme marker, and the record with pad = FALSE, scheme = "none" and     *)
(* empty host and path is the empty string.                                *)
(***************************************************************************)
EXTENDS Integers, Sequences, FiniteSets, TLC

\* ------------------------------------------------------------------ bounds
MaxRows == 2          \* data rows of the input file
Workers == 2          \* largest size of the thread pool tried (--workers)
Delay == 1            \* the positive per-host delay tried (--delay), in ticks
MaxTicks == 1         \* ticks the clock may advance during a run
Epoch == 5            \* reading of the clock when the run starts
MaxCsvRows == 3       \* data rows when read_input_csv is checked on its own
MaxCands == 3         \* rows of the planilha given to find_best

\* ------------------------------------------------------------ input domain
EmptyStr == [pad |-> FALSE, scheme |-> "none", host |-> "", path |-> ""]
UrlA == [pad |-> FALSE, scheme |-> "http", host |-> "h1", path |-> "a"]
UrlB == [pad |-> TRUE, scheme |-> "none", host |-> "h1", path |-> "b"]
UrlFile == [pad |-> FALSE, scheme |-> "file", host |-> "", path |-> "f"]
UrlBad == [pad |-> FALSE, scheme |-> "http", host |-> "", path |-> ""]

Blank == [pad |-> TRUE, scheme |-> "none", host |-> "", path |-> ""]
UrlAPad == [pad |-> TRUE, scheme |-> "http", host |-> "h1", path |-> "a"]

\* the same host over https, and another host
UrlS == [pad |-> FALSE, scheme |-> "https", host |-> "h1", path |-> "a"]
UrlC == [pad |-> FALSE, scheme |-> "http", host |-> "h2", path |-> "c"]

RunCells == {EmptyStr, UrlA, UrlB, UrlFile, UrlBad}
ThrottleCells == {UrlA, UrlS, UrlC, UrlBad, UrlFile}
CsvCells == {EmptyStr, Blank, UrlA, UrlAPad, UrlB, UrlFile}
Variants == {"qr_crawler", "crawler"}

NoTask == 0

VARIABLES
    variant,        \* which script runs: qr_crawler.py or the older crawler.py
    delay,          \* args.delay
    workers,        \* args.workers
    rows,           \* the data rows of the input file (the cell read per row)
    mainpc,         \* position of main
    urls,           \* the list returned by read_input_csv
    pc,             \* position of each submitted fetch_url call
    out,            \* the dict 'out' of each call
    loc,            \* locals last / now / wait of each call
    lastRequest,    \* _LAST_REQUEST
    lock,           \* holder of _LAST_REQUEST_LOCK, NoTask when free
    clock,          \* time.time()
    results,        \* the list 'results' of main
    written,        \* rows handed to write_outputs_seq, <<>> before
    hist,           \* history: per call, attempts, reserved and issued instants,
                    \* how it failed, I/O operations performed, the key of
                    \* the registry entry it wrote
    recon           \* compare_planilha: the reference being matched, the
                    \* loaded planilha rows and the result of find_best

vars == <<variant, delay, workers, rows, mainpc, urls, pc, out, loc, lastRequest, lock,
          clock, results, written, hist, recon>>

\* --------------------------------------------------------------- helpers
Max(a, b) == IF a >= b THEN a ELSE b
Abs(a) == IF a >= 0 THEN a ELSE 0 - a
Range(s) == {s[i] : i \in 1..Len(s)}
\* the submitted calls, numbered in submission order
Tasks == DOMAIN pc

\* val.replace(ch,'') for the invisible characters, then val.strip()
Sanitize(c) == [c EXCEPT !.pad = FALSE]

\* Python truthiness of a string: 'not val'
IsEmpty(c) == c = EmptyStr

\* a loop that appends every element
UniqKeepAll(s, seen) == s

RECURSIVE Uniq(_, _)
\* the loop 'for u in urls: if u not in seen: seen.add(u); uniq.append(u)'
Uniq(s, seen) ==
    IF s = <<>> THEN <<>>
    ELSE IF Head(s) \in seen THEN Uniq(Tail(s), seen)
         ELSE <<Head(s)>> \o Uniq(Tail(s), seen \cup {Head(s)})

RECURSIVE KeepCells(_, _)
\* the reading loop of read_input_csv: qr_crawler.py sanitizes each cell and
\* skips the empty ones, crawler.py appends the cell as it is
KeepCells(rs, v) ==
    IF rs = <<>> THEN <<>>
    ELSE IF v = "crawler" THEN <<Head(rs)>> \o KeepCells(Tail(rs), v)
         ELSE IF IsEmpty(Sanitize(Head(rs))) THEN KeepCells(Tail(rs), v)
              ELSE <<Sanitize(Head(rs))>> \o KeepCells(Tail(rs), v)

\* read_input_csv
ReadInputCsv(rs, v) == Uniq(KeepCells(rs, v), {})

\* normalize_url
NormalizeUrl(c) ==
    LET s == Sanitize(c) IN
    IF IsEmpty(s) THEN s
    ELSE IF s.scheme = "none" THEN [s EXCEPT !.scheme = "http"] ELSE s

\* a key made of the scheme and the hostname
HostKeyWithScheme(u) ==
    IF u.host # "" THEN [pad |-> FALSE, scheme |-> u.scheme, host |-> u.host, path |-> ""]
    ELSE u

\* 'urlparse(u).hostname or u': the hostname, or the whole text without one
HostKey(u) ==
    IF u.host # "" THEN [pad |-> FALSE, scheme |-> "", host |-> u.host, path |-> ""]
    ELSE u

\* _LAST_REQUEST.get(host, 0)
GetLast(reg, k) == IF k \in DOMAIN reg THEN reg[k] ELSE 0

\* a registry that forgets every other host when one is written
SetLastOnly(reg, k, v) == [x \in {k} |-> v]

\* _LAST_REQUEST[host] = v
SetLast(reg, k, v) == [x \in DOMAIN reg \cup {k} |-> IF x = k THEN v ELSE reg[x]]

\* the dict 'out' as fetch_url creates it; numero stands for the extracted
\* fields, fetch_time is <<>> while it holds ''
NewOut(u) == [orig_url |-> u, final_url |-> EmptyStr, numero |-> "",
              status_code |-> "", fetch_time |-> <<>>, error |-> ""]

\* the 'finally' clause: out['fetch_time'] = round(time.time() - start, 3)
Finally(o, start, t) == [o EXCEPT !.fetch_time = <<t - start>>]

\* an exception handler that forgets the message
ExceptOutSilent(o, msg) == o

\* 'except Exception as e: out['error'] = str(e)'
ExceptOut(o, msg) == [o EXCEPT !.error = msg]

\* a critical section entered without looking at the lock
CanAcquireNoLock(l) == TRUE

\* 'with _LAST_REQUEST_LOCK': the lock is taken only when nobody holds it
CanAcquire(l) == l = NoTask

\* a wait that is not clamped at zero
WaitSigned(allowed, now) == allowed - now

\* wait = max(0, allowed - now)
Wait(allowed, now) == Max(0, allowed - now)

\* a call that is inside fetch_url
Running(p) == p \in {"lock", "critical", "sleep", "request", "file"}

NoLoc == [start |-> 0, last |-> 0, allowed |-> 0, now |-> 0, wait |-> 0]
NoHist == [attempts |-> 0, reserved |-> 0, issued |-> 0, failure |-> "", io |-> 0,
           key |-> EmptyStr, earlier |-> 0]

\* compare_planilha is not running
NoRecon == [pc |-> "off"]

\* -------------------------------------------------------------------- Init
Init ==
    /\ variant \in Variants
    /\ delay \in IF variant = "crawler" THEN {0} ELSE {0, Delay}
    /\ workers \in {1, Workers}
    /\ rows \in [1..MaxRows -> RunCells]
    /\ mainpc = "read"
    /\ urls = <<>>
    /\ pc = <<>>
    /\ out = <<>>
    /\ loc = <<>>
    /\ lastRequest = <<>>
    /\ lock = NoTask
    /\ clock = Epoch
    /\ results = <<>>
    /\ written = <<>>
    /\ hist = <<>>
    /\ recon = NoRecon


\* ----------------------------------------------------------------- main
\* main: urls = read_input_csv(args.input); 'if not urls: return'
ReadInput ==
    /\ mainpc = "read"
    /\ urls' = ReadInputCsv(rows, variant)
    /\ mainpc' = IF urls' = <<>> THEN "done" ELSE "submit"
    /\ UNCHANGED <<variant, delay, workers, rows, pc, out, loc, lastRequest, lock, clock,
                   results, written, hist,
                   recon>>

\* main: futures = {ex.submit(fetch_url, u, ...): u for u in urls}
Submit ==
    /\ mainpc = "submit"
    /\ pc' = [t \in 1..Len(urls) |-> "pending"]
    /\ out' = [t \in 1..Len(urls) |-> NewOut(urls[t])]
    /\ loc' = [t \in 1..Len(urls) |-> NoLoc]
    /\ hist' = [t \in 1..Len(urls) |-> NoHist]
    /\ mainpc' = "collect"
    /\ UNCHANGED <<variant, delay, workers, rows, urls, lastRequest, lock, clock, results,
                   written,
                   recon>>

\* a call that is queued again after an exception
AfterFailureRetry == "pending"

\* where a call goes after an exception was caught: it returns 'out'
AfterFailure == "returned"

\* ------------------------------------------------------------ fetch_url
\* a pool thread takes the next queued call and runs fetch_url up to its
\* first blocking point
FetchStart(t) ==
    /\ pc[t] = "pending"
    /\ \A s \in Tasks : s < t => pc[s] # "pending"
    /\ Cardinality({s \in Tasks : Running(pc[s])}) < workers
    /\ LET url == urls[t]
           u == NormalizeUrl(url)
       IN /\ loc' = [loc EXCEPT ![t] = [NoLoc EXCEPT !.start = clock]]
          /\ hist' = [hist EXCEPT ![t].attempts = @ + 1,
                                  ![t].failure = IF IsEmpty(url) THEN "empty" ELSE ""]
          /\ IF IsEmpty(url)
             THEN /\ out' = [out EXCEPT ![t] = ExceptOut(NewOut(url), "empty url")]
                  /\ pc' = [pc EXCEPT ![t] = "returned"]
             ELSE /\ out' = [out EXCEPT ![t] = NewOut(url)]
                  /\ pc' = [pc EXCEPT ![t] =
                              IF u.scheme = "file" THEN "file"
                              ELSE IF delay > 0 THEN "lock" ELSE "request"]
    /\ UNCHANGED <<variant, delay, workers, rows, mainpc, urls, lastRequest, lock, clock,
                   results, written,
                   recon>>

\* the file:// branch: the file is missing, or it exists and is read, or it
\* exists and reading it raises (status and location are already set)
FetchFile(t) ==
    /\ pc[t] = "file"
    /\ \E found \in {"read", "missing", "unreadable"} :
         /\ out' = [out EXCEPT ![t] =
              CASE found = "read" ->
                     Finally([@ EXCEPT !.status_code = "200",
                                       !.final_url = NormalizeUrl(urls[t]),
                                       !.numero = "n"],
                             loc[t].start, clock)
                [] found = "missing" ->
                     Finally(ExceptOut(@, "file not found"), loc[t].start, clock)
                [] found = "unreadable" ->
                     Finally(ExceptOut([@ EXCEPT !.status_code = "200",
                                                 !.final_url = NormalizeUrl(urls[t])],
                                       "unreadable"),
                             loc[t].start, clock)]
         /\ hist' = [hist EXCEPT ![t].failure = IF found = "read" THEN "" ELSE found,
                                 ![t].io = IF found = "missing" THEN @ ELSE @ + 1]
         /\ pc' = [pc EXCEPT ![t] = IF found = "read" THEN "returned" ELSE AfterFailure]
    /\ loc' = [loc EXCEPT ![t] = NoLoc]
    /\ UNCHANGED <<variant, delay, workers, rows, mainpc, urls, lastRequest, lock,
                   clock, results, written, recon>>

\* 'with _LAST_REQUEST_LOCK:' is entered;
\* last = _LAST_REQUEST.get(host, 0); allowed = last + per_host_delay
EnterCritical(t) ==
    /\ pc[t] = "lock"
    /\ CanAcquire(lock)
    /\ lock' = t
    /\ LET last == GetLast(lastRequest, HostKey(NormalizeUrl(urls[t])))
       IN loc' = [loc EXCEPT ![t].last = last, ![t].allowed = last + delay]
    /\ pc' = [pc EXCEPT ![t] = "critical"]
    /\ UNCHANGED <<variant, delay, workers, rows, mainpc, urls, out, lastRequest, clock,
                   results, written, hist, recon>>

\* a reservation that leaves the 'with' block without releasing the lock
ReserveKeepLock(t) ==
    /\ pc[t] = "critical"
    /\ LET now == clock
           wait == Wait(loc[t].allowed, now)
       IN /\ loc' = [loc EXCEPT ![t].now = now, ![t].wait = wait]
          /\ lastRequest' = SetLast(lastRequest, HostKey(NormalizeUrl(urls[t])),
                                    now + wait)
          /\ hist' = [hist EXCEPT ![t].reserved = now + wait, ![t].io = @ + 1,
                                  ![t].key = HostKey(NormalizeUrl(urls[t])),
                                  ![t].earlier = Cardinality(
                                      {s \in Tasks : /\ hist[s].reserved > 0
                                                     /\ hist[s].key =
                                                          HostKey(NormalizeUrl(urls[t]))})]
          /\ pc' = [pc EXCEPT ![t] = IF wait > 0 THEN "sleep" ELSE "request"]
    /\ UNCHANGED <<variant, delay, workers, rows, mainpc, urls, out, lock, clock, results,
                   written, recon>>

\* now = time.time(); wait = max(0, allowed - now);
\* _LAST_REQUEST[host] = now + wait; the 'with' block is left;
\* 'if wait > 0: time.sleep(wait)' is reached
Reserve(t) ==
    /\ pc[t] = "critical"
    /\ LET now == clock
           wait == Wait(loc[t].allowed, now)
       IN /\ loc' = [loc EXCEPT ![t].now = now, ![t].wait = wait]
          /\ lastRequest' = SetLast(lastRequest, HostKey(NormalizeUrl(urls[t])),
                                    now + wait)
          /\ hist' = [hist EXCEPT ![t].reserved = now + wait, ![t].io = @ + 1,
                                  ![t].key = HostKey(NormalizeUrl(urls[t])),
                                  ![t].earlier = Cardinality(
                                      {s \in Tasks : /\ hist[s].reserved > 0
                                                     /\ hist[s].key =
                                                          HostKey(NormalizeUrl(urls[t]))})]
          /\ pc' = [pc EXCEPT ![t] = IF wait > 0 THEN "sleep" ELSE "request"]
    /\ lock' = NoTask
    /\ UNCHANGED <<variant, delay, workers, rows, mainpc, urls, out, clock, results,
                   written, recon>>

\* time.sleep(wait) returns no earlier than wait after it was called
Sleep(t) ==
    /\ pc[t] = "sleep"
    /\ clock >= loc[t].now + loc[t].wait
    /\ pc' = [pc EXCEPT ![t] = "request"]
    /\ UNCHANGED <<variant, delay, workers, rows, mainpc, urls, out, loc, lastRequest,
                   lock, clock, results, written, hist,
                   recon>>

\* s.get(u, ...) and the extraction: a response whose text yields the
\* fields, or an exception (timeout, connection failure); a text without a
\* host is refused before any request.  The locals of the call end with it.
Request(t) ==
    /\ pc[t] = "request"
    /\ LET u == NormalizeUrl(urls[t]) IN
       \E outcome \in {"ok", "timeout"} :
         IF u.host = ""
         THEN /\ outcome = "ok"
              /\ out' = [out EXCEPT ![t] =
                           Finally(ExceptOut(@, "invalid url"), loc[t].start, clock)]
              /\ hist' = [hist EXCEPT ![t].failure = "invalid"]
              /\ pc' = [pc EXCEPT ![t] = AfterFailure]
         ELSE IF outcome = "timeout"
         THEN /\ out' = [out EXCEPT ![t] =
                           Finally(ExceptOut(@, outcome), loc[t].start, clock)]
              /\ hist' = [hist EXCEPT ![t].failure = "timeout", ![t].issued = clock,
                                      ![t].io = @ + 1]
              /\ pc' = [pc EXCEPT ![t] = AfterFailure]
         ELSE /\ out' = [out EXCEPT ![t] =
                           Finally([@ EXCEPT !.status_code = "200",
                                             !.final_url = u,
                                             !.numero = "n"],
                                   loc[t].start, clock)]
              /\ hist' = [hist EXCEPT ![t].issued = clock, ![t].io = @ + 1]
              /\ pc' = [pc EXCEPT ![t] = "returned"]
    /\ loc' = [loc EXCEPT ![t] = NoLoc]
    /\ UNCHANGED <<variant, delay, workers, rows, mainpc, urls, lastRequest, lock, clock,
                   results, written, recon>>

\* main: 'for fut in as_completed(futures): res = fut.result(); results.append(res)'
\* (fetch_url catches every Exception, so fut.result() does not raise)
Collect(t) ==
    /\ mainpc = "collect"
    /\ pc[t] = "returned"
    /\ results' = Append(results, out[t])
    /\ pc' = [pc EXCEPT ![t] = "collected"]
    /\ UNCHANGED <<variant, delay, workers, rows, mainpc, urls, out, loc, lastRequest,
                   lock, clock, written, hist,
                   recon>>

\* outputs written without waiting for the pool to drain
WriteOutputsEarly ==
    /\ mainpc = "collect"
    /\ written' = results
    /\ mainpc' = "done"
    /\ UNCHANGED <<variant, delay, workers, rows, urls, pc, out, loc, lastRequest, lock,
                   clock, results, hist,
                   recon>>

\* main: the pool has shut down; write_outputs_seq('planilha_feita', results)
WriteOutputs ==
    /\ mainpc = "collect"
    /\ \A t \in Tasks : pc[t] = "collected"
    /\ written' = results
    /\ mainpc' = "done"
    /\ UNCHANGED <<variant, delay, workers, rows, urls, pc, out, loc, lastRequest, lock,
                   clock, results, hist,
                   recon>>

\* the wall clock advances while a call is queued or running (the instants
\* of the run are read by the calls only)
Tick ==
    /\ mainpc = "collect"
    /\ \E t \in Tasks : pc[t] \notin {"returned", "collected"}
    /\ clock < Epoch + MaxTicks
    /\ clock' = clock + 1
    /\ UNCHANGED <<variant, delay, workers, rows, mainpc, urls, pc, out, loc, lastRequest,
                   lock, results, written, hist,
                   recon>>

Next ==
    \/ ReadInput
    \/ Submit
    \/ \E t \in Tasks : FetchStart(t)
    \/ \E t \in Tasks : FetchFile(t)
    \/ \E t \in Tasks : EnterCritical(t)
    \/ \E t \in Tasks : Reserve(t)
    \/ \E t \in Tasks : Sleep(t)
    \/ \E t \in Tasks : Request(t)
    \/ \E t \in Tasks : Collect(t)
    \/ WriteOutputs
    \/ Tick

Spec == Init /\ [][Next]_vars

TypeOK ==
    /\ lock \in {NoTask} \cup Tasks
    /\ clock \in Epoch..(Epoch + MaxTicks)
    /\ Len(results) <= Len(urls)

\* ------------------------------------------------------- the crawler run
\* the calls that target the same throttle entry as call t
SameHost(s, t) ==
    HostKey(NormalizeUrl(urls[s])) = HostKey(NormalizeUrl(urls[t]))

\* call t has reserved an instant in the throttle registry
HasReserved(t) == hist[t].reserved > 0

\* call t has issued its network request
HasIssued(t) == hist[t].issued > 0

InCritical(t) == pc[t] = "critical"

\* the result collected for call t, when there is one
ResultsOf(t) == {i \in 1..Len(results) : results[i].orig_url = urls[t]}

\* C1: with a per-host delay d > 0 the read of the last reserved instant, the
\* computation of the wait and the write of the new instant are one step
\* under the lock (at most one call is between them at a time), and the
\* instants reserved for one host are pairwise at least d apart.
C1_ReservationsApart ==
    /\ \A s, t \in Tasks : (s # t /\ InCritical(s)) => ~InCritical(t)
    /\ \A s, t \in Tasks :
         (s # t /\ HasReserved(s) /\ HasReserved(t) /\ SameHost(s, t))
            => Abs(hist[s].reserved - hist[t].reserved) >= delay

\* two calls for one host have both reserved, the second one delay later
C1_Witness ==
    \E s, t \in Tasks :
        /\ s # t /\ delay > 0 /\ SameHost(s, t)
        /\ HasReserved(s) /\ HasReserved(t)
        /\ hist[t].reserved = hist[s].reserved + delay

\* C2: with a per-host delay d > 0 any two network requests issued to the
\* same host are issued at least d apart, whatever the scheduling.
C2_RequestsApart ==
    \A s, t \in Tasks :
        (s # t /\ delay > 0 /\ HasIssued(s) /\ HasIssued(t) /\ SameHost(s, t))
            => Abs(hist[s].issued - hist[t].issued) >= delay

\* the failures of a fetch: timeout or connection failure, missing file,
\* malformed target (empty, or without a host)
ListedFailures == {"timeout", "missing", "empty", "invalid"}

\* C3: once the pool has drained there is exactly one result per target; a
\* target whose fetch failed (timeout, connection failure, missing file,
\* malformed target) has a result with an error and nothing else, a target
\* whose fetch succeeded has a result without error.
C3_FetchIsolation ==
    (mainpc = "done" /\ urls # <<>>) =>
        /\ Len(results) = Len(urls)
        /\ written = results
        /\ \A t \in Tasks :
             /\ Cardinality(ResultsOf(t)) = 1
             /\ \A i \in ResultsOf(t) :
                  /\ hist[t].failure \in ListedFailures =>
                        /\ results[i].error # ""
                        /\ results[i].status_code = ""
                        /\ results[i].final_url = EmptyStr
                        /\ results[i].numero = ""
                  /\ hist[t].failure = "" =>
                        /\ results[i].error = ""
                        /\ results[i].status_code = "200"

\* a finished run in which one target failed and another succeeded
C3_Witness ==
    /\ mainpc = "done"
    /\ \E s, t \in Tasks : hist[s].failure \in ListedFailures /\ hist[t].failure = ""

\* C4: every target is submitted once, attempted at most once (a failed
\* fetch is not retried) and appears at most once in the collected results.
C4_AtMostOnce ==
    /\ \A s, t \in 1..Len(urls) : urls[s] = urls[t] => s = t
    /\ \A t \in Tasks : hist[t].attempts <= 1
    /\ \A i, j \in 1..Len(results) :
         results[i].orig_url = results[j].orig_url => i = j

\* a finished run over an input that named a target twice and in which a
\* fetch failed
C4_Witness ==
    /\ mainpc = "done"
    /\ \E i, j \in 1..MaxRows : i # j /\ Sanitize(rows[i]) = Sanitize(rows[j])
    /\ \E t \in Tasks : hist[t].failure # "" /\ hist[t].attempts = 1

\* C5: every collected result carries an elapsed time.
C5_ElapsedRecorded ==
    \A i \in 1..Len(results) : results[i].fetch_time # <<>>

\* C6: at the end of the run every input row with an empty target has a
\* result carrying the 'empty url' error, obtained without any reservation,
\* file read or request.
C6_EmptyRowRecorded ==
    mainpc = "done" =>
        \A r \in 1..MaxRows :
            IsEmpty(rows[r]) =>
                /\ \E i \in 1..Len(results) :
                     /\ results[i].orig_url = rows[r]
                     /\ results[i].error = "empty url"
                /\ \A t \in Tasks : urls[t] = rows[r] => hist[t].io = 0

\* the calls whose result main has taken from as_completed
Collected == {t \in Tasks : pc[t] = "collected"}

\* a call that was submitted and has not returned
InFlight(t) == pc[t] \in {"pending", "lock", "critical", "sleep", "request", "file"}

\* C21: the list of results holds one result per call collected, appended by
\* main alone as the calls complete, and the outputs are written only once
\* every submitted call has completed and been collected: nothing is written
\* while a call is in flight.
C21_ForkJoinBarrier ==
    /\ Len(results) = Cardinality(Collected)
    /\ \A t \in Collected : Cardinality(ResultsOf(t)) = 1
    /\ (mainpc = "done" /\ urls # <<>>) =>
          /\ \A t \in Tasks : ~InFlight(t) /\ pc[t] = "collected"
          /\ written = results
    /\ mainpc # "done" => written = <<>>

\* two calls were collected in the reverse of their submission order and the
\* outputs were written
C21_Witness ==
    /\ mainpc = "done"
    /\ Len(written) = 2
    /\ written[1].orig_url = urls[2]
    /\ written[2].orig_url = urls[1]

\* the calls whose target is a local file
FileTasks == {t \in Tasks : NormalizeUrl(urls[t]).scheme = "file"}

\* C23: a call for a local file never waits for the lock, never reserves and
\* never sleeps; when it has returned, its result has status 200 and no error
\* if the file exists, and the error 'file not found' and no status if it
\* does not.
C23_FileBypassesThrottle ==
    \A t \in FileTasks :
        /\ pc[t] \notin {"lock", "critical", "sleep", "request"}
        /\ ~HasReserved(t)
        /\ hist[t].key \notin DOMAIN lastRequest
        /\ pc[t] \in {"returned", "collected"} =>
              IF hist[t].failure = "missing"
              THEN out[t].error = "file not found" /\ out[t].status_code = ""
              ELSE out[t].error = "" /\ out[t].status_code = "200"

\* ------------------------------------------------ the run under fairness
LiveCells == {EmptyStr, UrlA, UrlB, UrlFile}

InitLive ==
    /\ variant = "qr_crawler"
    /\ delay = Delay
    /\ workers \in {1, Workers}
    /\ rows \in [1..MaxRows -> LiveCells]
    /\ mainpc = "read"
    /\ urls = <<>>
    /\ pc = <<>>
    /\ out = <<>>
    /\ loc = <<>>
    /\ lastRequest = <<>>
    /\ lock = NoTask
    /\ clock = Epoch
    /\ results = <<>>
    /\ written = <<>>
    /\ hist = <<>>
    /\ recon = NoRecon

\* time passes while a call is inside time.sleep(wait)
Wake ==
    /\ \E t \in Tasks : pc[t] = "sleep" /\ clock < loc[t].now + loc[t].wait
    /\ clock' = clock + 1
    /\ UNCHANGED <<variant, delay, workers, rows, mainpc, urls, pc, out, loc, lastRequest,
                   lock, results, written, hist, recon>>

\* the steps of the pool thread that runs call t
WorkerStep(t) ==
    /\ t \in Tasks
    /\ \/ FetchStart(t)
       \/ FetchFile(t)
       \/ EnterCritical(t)
       \/ Reserve(t)
       \/ Sleep(t)
       \/ Request(t)

\* the steps of the main thread
MainStep ==
    \/ ReadInput
    \/ Submit
    \/ \E t \in Tasks : Collect(t)
    \/ WriteOutputs

\* the steps of the threads, and the clock advancing for a sleeping call: no
\* guard of the run is disabled by a later clock, so the ticks that pass
\* elsewhere (Tick of Spec) only shorten the waits
NextLive ==
    \/ MainStep
    \/ \E t \in Tasks : WorkerStep(t)
    \/ Wake

\* every thread that can run is scheduled, the clock runs, and every request
\* returns or times out
SpecLive ==
    /\ InitLive
    /\ [][NextLive]_vars
    /\ WF_vars(MainStep)
    /\ \A t \in 1..MaxRows : WF_vars(WorkerStep(t))
    /\ WF_vars(Wake)

\* every target has a collected result and the outputs hold them all
AllWritten ==
    /\ mainpc = "done"
    /\ \A t \in Tasks : pc[t] = "collected"
    /\ Len(results) = Len(urls)
    /\ written = results

InitThrottle ==
    /\ variant = "qr_crawler"
    /\ delay \in {0 - Delay, 0, Delay}
    /\ workers = Workers
    /\ rows \in {r \in [1..MaxRows -> ThrottleCells] : r[1] = UrlA}
    /\ mainpc = "read"
    /\ urls = <<>>
    /\ pc = <<>>
    /\ out = <<>>
    /\ loc = <<>>
    /\ lastRequest = <<>>
    /\ lock = NoTask
    /\ clock = Epoch
    /\ results = <<>>
    /\ written = <<>>
    /\ hist = <<>>
    /\ recon = NoRecon

SpecThrottle == InitThrottle /\ [][Next]_vars

\* the text the call t fetches: normalize_url(url)
Target(t) == NormalizeUrl(urls[t])

\* C22 as stated: two calls that reserved wrote the same registry entry
\* exactly when their targets have the same scheme and the same host, and a
\* target without a host wrote the entry named by its whole text.
C22_KeyedBySchemeAndHost ==
    \A s, t \in Tasks :
        (HasReserved(s) /\ HasReserved(t)) =>
            /\ (Target(t).host = "" => hist[t].key = Target(t))
            /\ (Target(s).host # "" /\ Target(t).host # "") =>
                  ((hist[s].key = hist[t].key) <=>
                     (Target(s).scheme = Target(t).scheme /\ Target(s).host = Target(t).host))

\* C22 amended: two calls that reserved wrote the same registry entry exactly
\* when their targets have the same hostname, whatever their schemes, and a
\* target without a host wrote the entry named by its whole text; the
\* entries of the registry are those the calls wrote.
C22_KeyedByHost ==
    /\ \A s, t \in Tasks :
        (HasReserved(s) /\ HasReserved(t)) =>
            /\ (Target(t).host = "" => hist[t].key = Target(t))
            /\ (Target(s).host # "" /\ Target(t).host # "") =>
                  ((hist[s].key = hist[t].key) <=> (Target(s).host = Target(t).host))
            /\ (Target(s).host = "" /\ Target(t).host # "") => hist[s].key # hist[t].key
    /\ DOMAIN lastRequest = {hist[t].key : t \in {x \in Tasks : HasReserved(x)}}

\* an http and an https target of one host reserved through one entry, the
\* second one delay after the first
C22_Witness ==
    \E s, t \in Tasks :
        /\ Target(s).scheme = "http" /\ Target(t).scheme = "https"
        /\ Target(s).host = Target(t).host
        /\ HasReserved(s) /\ HasReserved(t)
        /\ hist[s].key = hist[t].key
        /\ hist[t].reserved = hist[s].reserved + delay
        /\ Cardinality(DOMAIN lastRequest) = 1

\* the step in which call t leaves the 'with' block
Reserves(t) == t \in DOMAIN pc /\ pc[t] = "critical" /\ pc'[t] # "critical"

\* C26: a reservation for a host changes only that host's registry entry; no
\* other step changes the registry; no entry is ever removed; and with a
\* delay of 0 or less the registry never changes and no call reaches the
\* lock, the reservation or the sleep.
C26_ReservationFrame ==
    [][/\ DOMAIN lastRequest \subseteq DOMAIN lastRequest'
       /\ \A t \in DOMAIN pc :
            Reserves(t) =>
               /\ HostKey(Target(t)) \in DOMAIN lastRequest'
               /\ \A k \in DOMAIN lastRequest :
                     k # HostKey(Target(t)) => lastRequest'[k] = lastRequest[k]
       /\ (\A t \in DOMAIN pc : ~Reserves(t)) => lastRequest' = lastRequest
       /\ delay <= 0 =>
            /\ lastRequest' = lastRequest
            /\ \A t \in DOMAIN pc' : pc'[t] \notin {"lock", "critical", "sleep"}
            /\ \A t \in DOMAIN loc' : loc'[t].wait = 0]_vars

\* the registry holds the instants of two hosts, the second written after
\* the first
C26_Witness ==
    \E s, t \in Tasks :
        /\ HasReserved(s) /\ HasReserved(t)
        /\ hist[s].key # hist[t].key
        /\ DOMAIN lastRequest = {hist[s].key, hist[t].key}
        /\ lastRequest[hist[s].key] = hist[s].reserved
        /\ lastRequest[hist[t].key] = hist[t].reserved
        /\ hist[t].reserved > hist[s].reserved

\* call t has left the 'with' block and not yet issued its request: now and
\* wait are the values of its reservation
JustReserved(t) == HasReserved(t) /\ pc[t] \in {"sleep", "request"}

\* C27: with a delay d > 0, every reservation made at instant now reserves
\* an instant that is not before now; its wait is the reserved instant minus
\* now and is not negative; the wait is 0 when no reservation was made for
\* the host before; and the wait is at most k*d after k earlier reservations
\* for the host.
C27_WaitBounds ==
    \A t \in Tasks :
        (delay > 0 /\ JustReserved(t)) =>
            /\ hist[t].reserved >= loc[t].now
            /\ loc[t].wait = hist[t].reserved - loc[t].now
            /\ loc[t].wait >= 0
            /\ (hist[t].earlier = 0 => loc[t].wait = 0)
            /\ loc[t].wait <= hist[t].earlier * delay
            /\ hist[t].earlier =
                  Cardinality({s \in Tasks \ {t} : /\ HasReserved(s)
                                                   /\ hist[s].key = hist[t].key
                                                   /\ hist[s].reserved < hist[t].reserved})

\* the second reservation of a host, made at the instant of the first,
\* waits a whole delay
C27_Witness ==
    \E t \in Tasks :
        /\ delay > 0 /\ pc[t] = "sleep"
        /\ hist[t].earlier = 1
        /\ loc[t].wait = delay
        /\ hist[t].reserved = loc[t].now + delay

\* --------------------------------------------- read_input_csv on its own
InitCsv ==
    /\ variant \in Variants
    /\ delay = 0
    /\ workers = 1
    /\ rows \in [1..MaxCsvRows -> CsvCells]
    /\ mainpc = "read"
    /\ urls = <<>>
    /\ pc = <<>>
    /\ out = <<>>
    /\ loc = <<>>
    /\ lastRequest = <<>>
    /\ lock = NoTask
    /\ clock = Epoch
    /\ results = <<>>
    /\ written = <<>>
    /\ hist = <<>>
    /\ recon = NoRecon

NextCsv == ReadInput

SpecCsv == InitCsv /\ [][NextCsv]_vars

\* the target string a cell stands for: qr_crawler.py compares the cells
\* without their blanks and invisible characters, crawler.py as they are
TargetOf(c) == IF variant = "crawler" THEN c ELSE Sanitize(c)

InputTargets ==
    {TargetOf(rows[r]) : r \in DOMAIN rows}
        \ (IF variant = "crawler" THEN {} ELSE {EmptyStr})

FirstRow(u) ==
    CHOOSE r \in DOMAIN rows :
        /\ TargetOf(rows[r]) = u
        /\ \A q \in DOMAIN rows : q < r => TargetOf(rows[q]) # u

\* C7: the list returned by read_input_csv has no two equal targets, holds
\* every distinct target of the input, and lists them in the order of their
\* first occurrence.
C7_DedupFirstSeen ==
    mainpc # "read" =>
        /\ \A i, j \in 1..Len(urls) : urls[i] = urls[j] => i = j
        /\ Range(urls) = InputTargets
        /\ \A i, j \in 1..Len(urls) : i < j => FirstRow(urls[i]) < FirstRow(urls[j])

\* an input that repeats a target after a different one was read
C7_Witness ==
    /\ mainpc # "read"
    /\ Len(urls) >= 2
    /\ \E i, j, k \in DOMAIN rows :
         /\ i < j /\ j < k
         /\ TargetOf(rows[i]) = TargetOf(rows[k])
         /\ TargetOf(rows[i]) # TargetOf(rows[j])
         /\ urls[1] = TargetOf(rows[i])

\* ------------------------------------------------------ compare_planilha
\* A raw field is a sequence of characters; an Optional value is <<>> for
\* None and <<v>> for the value v.
DefaultMaxDiff == 5

Digits == {"0", "1", "2", "3", "4", "5", "6", "7", "8", "9"}

DigitVal(c) ==
    CASE c = "0" -> 0 [] c = "1" -> 1 [] c = "2" -> 2 [] c = "3" -> 3
      [] c = "4" -> 4 [] c = "5" -> 5 [] c = "6" -> 6 [] c = "7" -> 7
      [] c = "8" -> 8 [] c = "9" -> 9

RECURSIVE SkipNonDigits(_)
SkipNonDigits(s) ==
    IF s = <<>> \/ Head(s) \in Digits THEN s ELSE SkipNonDigits(Tail(s))

RECURSIVE TakeDigits(_)
TakeDigits(s) ==
    IF s = <<>> \/ Head(s) \notin Digits THEN <<>>
    ELSE <<Head(s)>> \o TakeDigits(Tail(s))

\* every digit of the string, whatever stands between them
DigitsOnly(s) == SelectSeq(s, LAMBDA c : c \in Digits)

\* re.search(r"(\d+)", s).group(1): the first maximal run of digits
FirstDigitRun(s) == TakeDigits(SkipNonDigits(s))

RECURSIVE LStripZeros(_)
\* v.lstrip('0')
LStripZeros(s) ==
    IF s # <<>> /\ Head(s) = "0" THEN LStripZeros(Tail(s)) ELSE s

RECURSIVE IntOf(_, _)
\* int(v) for a string of digits, read left to right
IntOf(s, acc) ==
    IF s = <<>> THEN acc ELSE IntOf(Tail(s), 10 * acc + DigitVal(Head(s)))

\* normalize_num
NormalizeNum(s) ==
    LET run == FirstDigitRun(s)
        stripped == LStripZeros(run)
        v == IF stripped = <<>> THEN <<"0">> ELSE stripped
    IN IF run = <<>> THEN <<>> ELSE <<IntOf(v, 0)>>

\* find_best found nothing: (None, None)
NoMatch == [idx |-> 0, diff |-> <<>>]

RECURSIVE LastExact(_, _, _)
\* an exact scan that keeps the last equal row
LastExact(res, target, i) ==
    IF i < 1 THEN 0
    ELSE IF NormalizeNum(res[i].numero) = target THEN i
         ELSE LastExact(res, target, i - 1)

\* an exact scan that starts from the end of the list
FirstExactFromEnd(res, target, i) == LastExact(res, target, Len(res))

RECURSIVE FirstExact(_, _, _)
\* 'for r in resultados: if normalize_num(r.get('numero')) == target: return r, 0'
\* the position of the row returned, 0 when the loop ends without one
FirstExact(res, target, i) ==
    IF i > Len(res) THEN 0
    ELSE IF NormalizeNum(res[i].numero) = target THEN i
         ELSE FirstExact(res, target, i + 1)

\* a difference taken without abs
AbsDiffSigned(num, target) == num - target

\* diff = abs(num - target)
AbsDiff(num, target) == Abs(num - target)

RECURSIVE NearestLastTie(_, _, _, _)
\* a nearest scan that replaces the kept row on an equal distance
NearestLastTie(res, target, i, acc) ==
    IF i > Len(res) THEN acc
    ELSE LET num == NormalizeNum(res[i].numero) IN
         IF num = <<>> THEN NearestLastTie(res, target, i + 1, acc)
         ELSE LET diff == AbsDiff(num[1], target[1]) IN
              IF acc.idx = 0 \/ diff <= acc.diff[1]
              THEN NearestLastTie(res, target, i + 1, [idx |-> i, diff |-> <<diff>>])
              ELSE NearestLastTie(res, target, i + 1, acc)

RECURSIVE Nearest(_, _, _, _)
\* the second loop of find_best; best is the position kept, bd its distance
Nearest(res, target, i, acc) ==
    IF i > Len(res) THEN acc
    ELSE LET num == NormalizeNum(res[i].numero) IN
         IF num = <<>> THEN Nearest(res, target, i + 1, acc)
         ELSE LET diff == AbsDiff(num[1], target[1]) IN
              IF acc.idx = 0 \/ diff < acc.diff[1]
              THEN Nearest(res, target, i + 1, [idx |-> i, diff |-> <<diff>>])
              ELSE Nearest(res, target, i + 1, acc)

\* a tolerance test that accepts every distance
WithinToleranceAny(bd, maxdiff) == bd # <<>>

\* a tolerance test that excludes the bound
WithinToleranceStrict(bd, maxdiff) == bd # <<>> /\ bd[1] < maxdiff

\* 'if bd is not None and bd <= maxdiff'
WithinTolerance(bd, maxdiff) == bd # <<>> /\ bd[1] <= maxdiff

\* the row the second loop of find_best holds in 'best' when it ends; NoMatch
\* when the loop is not reached (target None, or an exact row returned)
BestOf(target, res) ==
    IF target = <<>> \/ FirstExact(res, target, 1) # 0 THEN NoMatch
    ELSE Nearest(res, target, 1, NoMatch)

\* find_best: the position of the row returned (0 for None) and the distance
FindBest(target, res, maxdiff) ==
    IF target = <<>> THEN NoMatch
    ELSE LET e == FirstExact(res, target, 1) IN
         IF e # 0 THEN [idx |-> e, diff |-> <<0>>]
         ELSE LET n == Nearest(res, target, 1, NoMatch) IN
              IF WithinTolerance(n.diff, maxdiff) THEN n ELSE NoMatch

\* the characters of the numbers tried
Str(a, b, c) == <<a, b, c>>
RawNums == {Str("1", "9", "5"), Str("2", "0", "0"), <<"0", "2", "0", "0", "-", "X">>,
            Str("2", "0", "5"), Str("2", "0", "6"), Str("2", "1", "0"),
            <<"n", "/", "a">>}
RefNums == {Str("2", "0", "0"), <<"N", "F", "0", "2", "0", "1">>, <<>>}
MaxDiffs == {DefaultMaxDiff, DefaultMaxDiff + 4}

\* a planilha row: the numero column and its line in the file
Rows(n) == [1..n -> [numero : RawNums]]

InitMatch ==
    /\ variant = "qr_crawler"
    /\ delay = 0
    /\ workers = 1
    /\ rows = <<>>
    /\ mainpc = "done"
    /\ urls = <<>>
    /\ pc = <<>>
    /\ out = <<>>
    /\ loc = <<>>
    /\ lastRequest = <<>>
    /\ lock = NoTask
    /\ clock = Epoch
    /\ results = <<>>
    /\ written = <<>>
    /\ hist = <<>>
    /\ \E n \in 0..MaxCands :
       \E res \in Rows(n), ref \in RefNums, md \in MaxDiffs :
          recon = [pc |-> "loaded", num_raw |-> ref, resultados |-> res,
                   maxdiff |-> md, target |-> <<>>, best |-> NoMatch,
                   matched |-> NoMatch]

\* main of compare_planilha, for one reference:
\* target = normalize_num(num_raw); matched, diff = find_best(target, resultados)
MatchReference ==
    /\ recon.pc = "loaded"
    /\ LET target == NormalizeNum(recon.num_raw) IN
       recon' = [recon EXCEPT !.pc = "matched",
                              !.target = target,
                              !.best = BestOf(target, recon.resultados),
                              !.matched = FindBest(target, recon.resultados,
                                                   recon.maxdiff)]
    /\ UNCHANGED <<variant, delay, workers, rows, mainpc, urls, pc, out, loc, lastRequest,
                   lock, clock, results, written, hist>>

NextMatch == MatchReference

SpecMatch == InitMatch /\ [][NextMatch]_vars

\* the normalized number of candidate i
CandNum(i) == NormalizeNum(recon.resultados[i].numero)

Cands == 1..Len(recon.resultados)

\* the candidates whose normalized number equals the target
ExactCands == {i \in Cands : CandNum(i) = recon.target}

\* the candidates that have a normalized number
DefinedCands == {i \in Cands : CandNum(i) # <<>>}

Dist(i) == Abs(CandNum(i)[1] - recon.target[1])

SetMin(S) == CHOOSE x \in S : \A y \in S : x <= y

\* C8: when a candidate equals a present target, the matcher returns the
\* first such candidate of the list with distance 0, whatever precedes it.
C8_ExactWins ==
    (recon.pc = "matched" /\ recon.target # <<>> /\ ExactCands # {}) =>
        /\ recon.matched.idx = SetMin(ExactCands)
        /\ recon.matched.diff = <<0>>

\* two candidates equal the target and a candidate within tolerance that
\* is not equal to it stands before them
C8_Witness ==
    /\ recon.pc = "matched" /\ recon.target # <<>>
    /\ Cardinality(ExactCands) >= 2
    /\ \E i \in DefinedCands :
         /\ i < SetMin(ExactCands)
         /\ Dist(i) > 0 /\ Dist(i) <= recon.maxdiff
    /\ recon.matched.idx = SetMin(ExactCands)

\* C9: without an exact candidate the nearest candidate is accepted exactly
\* when its distance is at most the tolerance, and is returned with that
\* distance; otherwise the result is (None, None).
C9_ToleranceInclusive ==
    (recon.pc = "matched" /\ recon.target # <<>> /\ ExactCands = {}) =>
        IF DefinedCands # {} /\ SetMin({Dist(i) : i \in DefinedCands}) <= recon.maxdiff
        THEN /\ recon.matched.idx \in DefinedCands
             /\ recon.matched.diff = <<SetMin({Dist(i) : i \in DefinedCands})>>
             /\ Dist(recon.matched.idx) = recon.matched.diff[1]
        ELSE recon.matched = NoMatch

\* with tolerance 5 a nearest candidate at distance 5 was returned
C9_WitnessAccepted ==
    /\ recon.pc = "matched" /\ recon.target # <<>> /\ ExactCands = {}
    /\ recon.maxdiff = DefaultMaxDiff
    /\ recon.matched.diff = <<DefaultMaxDiff>>

\* with tolerance 5 a nearest candidate at distance 6 was rejected
C9_WitnessRejected ==
    /\ recon.pc = "matched" /\ recon.target # <<>> /\ ExactCands = {}
    /\ recon.maxdiff = DefaultMaxDiff
    /\ DefinedCands # {}
    /\ SetMin({Dist(i) : i \in DefinedCands}) = DefaultMaxDiff + 1
    /\ recon.matched = NoMatch

\* the case of C10: target 200, candidates 195 and 210, tolerance 5
C10_Case ==
    /\ recon.pc = "matched"
    /\ recon.target = <<200>>
    /\ recon.maxdiff = 5
    /\ Len(recon.resultados) = 2
    /\ {CandNum(i) : i \in Cands} = {<<195>>, <<210>>}

\* C10 as stated: for target 200, candidates 195 and 210 and tolerance 5 the
\* matcher returns no match.
C10_NoMatchAt5 == C10_Case => recon.matched = NoMatch

\* C10 amended: for target 200, candidates 195 and 210 and tolerance 5 the
\* matcher returns the candidate 195 with distance 5.
C10_MatchAt5 ==
    C10_Case =>
        /\ recon.matched.idx \in Cands
        /\ CandNum(recon.matched.idx) = <<195>>
        /\ recon.matched.diff = <<5>>

C10_Witness == C10_Case /\ recon.matched.idx # 0

\* the least distance of a candidate that has a normalized number
MinDist == SetMin({Dist(i) : i \in DefinedCands})

\* the candidates at the least distance
NearestCands == {i \in DefinedCands : Dist(i) = MinDist}

\* C11: without an exact candidate, the candidate the nearest scan holds is
\* the first of the list among those at the least absolute distance from the
\* target, candidates without a normalized number being skipped; the row
\* returned, if any, is that candidate.
C11_NearestFirstTie ==
    (recon.pc = "matched" /\ recon.target # <<>> /\ ExactCands = {}) =>
        /\ IF DefinedCands = {} THEN recon.best = NoMatch
           ELSE /\ recon.best.idx = SetMin(NearestCands)
                /\ recon.best.diff = <<MinDist>>
        /\ recon.matched \in {NoMatch, recon.best}

\* two candidates tie at the least distance behind a candidate without a
\* number, and the first of the two was returned
C11_Witness ==
    /\ recon.pc = "matched" /\ recon.target # <<>> /\ ExactCands = {}
    /\ Cardinality(NearestCands) >= 2
    /\ \E i \in Cands \ DefinedCands : i < SetMin(NearestCands)
    /\ recon.matched.idx = SetMin(NearestCands)

\* ------------------------------------------- amounts, timestamps, classify
\* An amount is an integer number of thousandths: float(s) for the strings
\* tried here, which have at most three decimals.
Scale == 1000

RemoveChar(s, c) == SelectSeq(s, LAMBDA x : x # c)

ReplaceChar(s, a, b) == [i \in DOMAIN s |-> IF s[i] = a THEN b ELSE s[i]]

RECURSIVE LStrip(_)
LStrip(s) == IF s # <<>> /\ Head(s) = " " THEN LStrip(Tail(s)) ELSE s

RECURSIVE RStrip(_)
RStrip(s) ==
    IF s # <<>> /\ s[Len(s)] = " " THEN RStrip(SubSeq(s, 1, Len(s) - 1)) ELSE s

\* s.strip()
Strip(s) == RStrip(LStrip(s))

RECURSIVE RemoveSymbol(_)
\* s.replace('R$', '')
RemoveSymbol(s) ==
    IF Len(s) < 2 THEN s
    ELSE IF s[1] = "R" /\ s[2] = "$" THEN RemoveSymbol(SubSeq(s, 3, Len(s)))
         ELSE <<Head(s)>> \o RemoveSymbol(Tail(s))

RECURSIVE UpTo(_, _)
\* the characters of s before the first c
UpTo(s, c) ==
    IF s = <<>> \/ Head(s) = c THEN <<>> ELSE <<Head(s)>> \o UpTo(Tail(s), c)

AllDigits(s) == \A i \in DOMAIN s : s[i] \in Digits

\* the thousandths written by the decimals f
FracOf(f) == IntOf(SubSeq(f \o <<"0", "0", "0">>, 1, 3), 0)

\* float(s) for an unsigned decimal literal: digits, at most one '.', at
\* least one digit; <<>> where float raises ValueError
PyFloat(s) ==
    LET ip == UpTo(s, ".")
        fp == IF Len(ip) = Len(s) THEN <<>> ELSE SubSeq(s, Len(ip) + 2, Len(s))
    IN IF AllDigits(ip) /\ AllDigits(fp) /\ Len(ip) + Len(fp) >= 1
       THEN <<IntOf(ip, 0) * Scale + FracOf(fp)>>
       ELSE <<>>

\* compare_planilha.parse_currency
ParseCurrency(s) ==
    LET a == RemoveChar(RemoveChar(Strip(s), "\""), " ") IN
    IF a = <<>> THEN <<>>
    ELSE PyFloat(ReplaceChar(RemoveChar(a, "."), ",", "."))

\* tools/format_results.parse_currency
ParseCurrencyFmt(s) ==
    LET a == Strip(s)
        b == RemoveChar(RemoveSymbol(RemoveChar(a, "\"")), " ")
        s2 == IF "," \in Range(b) /\ "." \in Range(b)
              THEN ReplaceChar(RemoveChar(b, "."), ",", ".")
              ELSE ReplaceChar(b, ",", ".")
    IN IF a = <<>> THEN <<>>
       ELSE IF PyFloat(s2) # <<>> THEN PyFloat(s2) ELSE PyFloat(b)

\* classify: the limits of its table
HotelAbove == 100
MealLow == 40
MealHigh == 55
DinnerHour == 16

Labels == {"SEM_VALOR", "HOTEL", "ALMOCO?", "ALMOCO", "JANTA", "OUTRO"}

RECURSIVE ScanHour(_)
\* re.search(r"(\d{2}):(\d{2})", s): the first two digits of the first
\* match as a number, <<>> for no match
ScanHour(s) ==
    IF Len(s) < 5 THEN <<>>
    ELSE IF /\ s[1] \in Digits /\ s[2] \in Digits /\ s[3] = ":"
            /\ s[4] \in Digits /\ s[5] \in Digits
         THEN <<IntOf(<<s[1], s[2]>>, 0)>>
         ELSE ScanHour(Tail(s))

\* a date without a time read as 00:00
HourOfMidnight(s) ==
    IF ScanHour(s) = <<>> /\ "/" \in Range(s) THEN <<0>> ELSE ScanHour(s)

\* 'hour = None; m = re.search(...); if m: hour = int(m.group(1))'
HourOf(s) == ScanHour(s)

\* a hotel test that includes the limit
IsHotelInclusive(v) == v >= HotelAbove * Scale

\* 'if valor > 100'
IsHotel(v) == v > HotelAbove * Scale

\* 'if 40 <= valor <= 55'
IsMeal(v) == MealLow * Scale <= v /\ v <= MealHigh * Scale

\* classify(valor, emissao_str); the datetime 'em' it parses is never read
Classify(valor, emissao) ==
    IF valor = <<>> THEN "SEM_VALOR"
    ELSE IF IsHotel(valor[1]) THEN "HOTEL"
    ELSE IF IsMeal(valor[1])
         THEN LET hour == HourOf(emissao) IN
              IF hour = <<>> THEN "ALMOCO?"
              ELSE IF hour[1] < DinnerHour THEN "ALMOCO" ELSE "JANTA"
    ELSE "OUTRO"

\* ------------------------------------------------ the field functions alone
\* the raw document numbers tried: every string of at most MaxNumLen
\* characters of NumChars, and "00123-X"
MaxNumLen == 4
NumChars == {"0", "1", "2", "X"}
Lit00123X == <<"0", "0", "1", "2", "3", "-", "X">>
NumStrings == UNION {[1..n -> NumChars] : n \in 0..MaxNumLen} \cup {Lit00123X}

\* the way an amount is written: digit groups joined by '.', a decimal
\* separator, decimals, trailing text, and what surrounds them
AmountForms ==
    {f \in [pad : BOOLEAN, quoted : BOOLEAN, symbol : BOOLEAN,
            groups : {<<>>, <<<<"4", "5">>>>, <<<<"1">>, <<"2", "3", "4">>>>},
            dsep : {"", ",", "."},
            frac : {<<>>, <<"0", "0">>, <<"5", "6">>},
            junk : {<<>>, <<"x">>}] :
        f.frac # <<>> => f.dsep # ""}

RECURSIVE Concat(_)
Concat(ss) == IF ss = <<>> THEN <<>> ELSE Head(ss) \o Concat(Tail(ss))

RECURSIVE JoinDots(_)
JoinDots(ss) ==
    IF ss = <<>> THEN <<>>
    ELSE IF Len(ss) = 1 THEN Head(ss)
         ELSE Head(ss) \o <<".">> \o JoinDots(Tail(ss))

\* the text of the cell that holds an amount written as f
RenderAmount(f) ==
    LET sp == IF f.pad THEN <<" ">> ELSE <<>>
        q == IF f.quoted THEN <<"\"">> ELSE <<>>
        sym == IF f.symbol THEN <<"R", "$", " ">> ELSE <<>>
        sep == IF f.dsep = "" THEN <<>> ELSE <<f.dsep>>
    IN sp \o q \o sym \o JoinDots(f.groups) \o sep \o f.frac \o f.junk \o q \o sp

\* the hours tried and the parts of an emissao cell
Hours == {0, 11, 15, 16, 19, 23}
StampForms ==
    {t \in [date : BOOLEAN, time : {<<>>} \cup {<<h>> : h \in Hours}, secs : BOOLEAN] :
        t.secs => t.time # <<>>}

DigitChar(d) == CHOOSE c \in Digits : DigitVal(c) = d

TwoDigits(n) == <<DigitChar(n \div 10), DigitChar(n % 10)>>

\* the text of an emissao cell: "05/11/2025", "05/11/2025 11:30",
\* "05/11/2025 11:30:45", "11:30", ""
RenderStamp(t) ==
    LET d == IF t.date THEN <<"0", "5", "/", "1", "1", "/", "2", "0", "2", "5">> ELSE <<>>
        sp == IF t.date /\ t.time # <<>> THEN <<" ">> ELSE <<>>
        hm == IF t.time = <<>> THEN <<>> ELSE TwoDigits(t.time[1]) \o <<":", "3", "0">>
        ss == IF t.secs THEN <<":", "4", "5">> ELSE <<>>
    IN d \o sp \o hm \o ss

\* the amounts classify is tried with, in thousandths, and None
ClassifyAmounts ==
    {<<>>} \cup {<<v>> : v \in {0, 20000, 39999, 40000, 45000, 55000, 55001,
                                 100000, 100001, 150000}}

\* the crawler is not running while the planilhas are compared
IdleRun ==
    /\ variant = "qr_crawler"
    /\ delay = 0
    /\ workers = 1
    /\ rows = <<>>
    /\ mainpc = "done"
    /\ urls = <<>>
    /\ pc = <<>>
    /\ out = <<>>
    /\ loc = <<>>
    /\ lastRequest = <<>>
    /\ lock = NoTask
    /\ clock = Epoch
    /\ results = <<>>
    /\ written = <<>>
    /\ hist = <<>>

InitFields ==
    /\ IdleRun
    /\ \/ \E s \in NumStrings :
            recon = [pc |-> "numero", raw |-> s, value |-> <<>>]
       \/ \E f \in AmountForms :
            recon = [pc |-> "valor", form |-> f, raw |-> RenderAmount(f),
                     value |-> <<>>]
       \/ \E v \in ClassifyAmounts, t \in StampForms :
            recon = [pc |-> "emissao", valor |-> v, stamp |-> t,
                     raw |-> RenderStamp(t), value |-> ""]

\* normalize_num(raw)
NormalizeNumCall ==
    /\ recon.pc = "numero"
    /\ recon' = [recon EXCEPT !.pc = "normalized",
                              !.value = NormalizeNum(recon.raw)]
    /\ UNCHANGED <<variant, delay, workers, rows, mainpc, urls, pc, out, loc, lastRequest,
                   lock, clock, results, written, hist>>

\* compare_planilha.parse_currency(raw)
ParseCurrencyCall ==
    /\ recon.pc = "valor"
    /\ recon' = [recon EXCEPT !.pc = "parsed",
                              !.value = ParseCurrency(recon.raw)]
    /\ UNCHANGED <<variant, delay, workers, rows, mainpc, urls, pc, out, loc, lastRequest,
                   lock, clock, results, written, hist>>

\* tools/format_results: parse_currency(raw) inside make_xlsx
ParseCurrencyFmtCall ==
    /\ recon.pc = "valor"
    /\ recon' = [recon EXCEPT !.pc = "parsed_fmt",
                              !.value = ParseCurrencyFmt(recon.raw)]
    /\ UNCHANGED <<variant, delay, workers, rows, mainpc, urls, pc, out, loc, lastRequest,
                   lock, clock, results, written, hist>>

\* classify(valor, raw)
ClassifyCall ==
    /\ recon.pc = "emissao"
    /\ recon' = [recon EXCEPT !.pc = "classified",
                              !.value = Classify(recon.valor, recon.raw)]
    /\ UNCHANGED <<variant, delay, workers, rows, mainpc, urls, pc, out, loc, lastRequest,
                   lock, clock, results, written, hist>>

NextFields ==
    \/ NormalizeNumCall
    \/ ParseCurrencyCall
    \/ ParseCurrencyFmtCall
    \/ ClassifyCall

SpecFields == InitFields /\ [][NextFields]_vars

\* C13: classify returns one of the six labels, by the table: no amount
\* SEM_VALOR; above 100 HOTEL; from 40 to 55 ALMOCO? without a time of day,
\* ALMOCO for an hour below 16, JANTA for an hour from 16 on; OUTRO for every
\* other amount, 100 itself included.
C13_DecisionTable ==
    recon.pc = "classified" =>
        LET v == recon.valor
            t == recon.stamp.time
        IN /\ recon.value \in Labels
           /\ recon.value =
                CASE v = <<>> -> "SEM_VALOR"
                  [] v # <<>> /\ v[1] > 100 * Scale -> "HOTEL"
                  [] v # <<>> /\ v[1] >= 40 * Scale /\ v[1] <= 55 * Scale ->
                        IF t = <<>> THEN "ALMOCO?"
                        ELSE IF t[1] < 16 THEN "ALMOCO" ELSE "JANTA"
                  [] OTHER -> "OUTRO"

\* the amount 55 at 16:30 was classified JANTA
C13_Witness ==
    /\ recon.pc = "classified"
    /\ recon.valor = <<55 * Scale>>
    /\ recon.stamp.time = <<16>>
    /\ recon.value = "JANTA"

\* the positions of the digits of the raw number
DigitPos == {i \in DOMAIN recon.raw : recon.raw[i] \in Digits}

\* the last position of the run of digits that starts at the first digit
RunEnd ==
    CHOOSE j \in DigitPos :
        /\ \A k \in SetMin(DigitPos)..j : k \in DigitPos
        /\ (j + 1) \notin DigitPos

RECURSIVE Pow10(_)
Pow10(n) == IF n = 0 THEN 1 ELSE 10 * Pow10(n - 1)

RECURSIVE PlaceValue(_, _, _)
\* the number written by the digits s[a..b]
PlaceValue(s, a, b) ==
    IF a > b THEN 0
    ELSE DigitVal(s[a]) * Pow10(b - a) + PlaceValue(s, a + 1, b)

\* C19: normalize_num returns None exactly for a string without a digit, and
\* otherwise the natural number written by the first maximal run of digits,
\* leading zeros not counting and the characters after the run not mattering;
\* "00123-X" gives 123.
C19_FirstDigitRunValue ==
    recon.pc = "normalized" =>
        /\ (recon.value = <<>>) <=> (DigitPos = {})
        /\ DigitPos # {} =>
             /\ recon.value = <<PlaceValue(recon.raw, SetMin(DigitPos), RunEnd)>>
             /\ recon.value[1] \in Nat
        /\ recon.raw = Lit00123X => recon.value = <<123>>

\* "00123-X" was normalized
C19_Witness ==
    /\ recon.pc = "normalized"
    /\ recon.raw = Lit00123X
    /\ recon.value = <<123>>

\* the number of '.' in the amount written as f
Dots(f) ==
    (IF Len(f.groups) = 2 THEN 1 ELSE 0) + (IF f.dsep = "." THEN 1 ELSE 0)

\* the amount that the rules of C20 give to the text written as f
RuleAmount(f) ==
    LET int == Concat(f.groups) IN
    IF f.junk # <<>> \/ Len(int) + Len(f.frac) = 0 THEN <<>>
    ELSE IF f.dsep = "," THEN <<IntOf(int, 0) * Scale + FracOf(f.frac)>>
    ELSE IF Dots(f) = 0 THEN <<IntOf(int, 0) * Scale>>
    ELSE IF Dots(f) = 1
         THEN IF f.dsep = "."
              THEN <<IntOf(int, 0) * Scale + FracOf(f.frac)>>
              ELSE <<IntOf(f.groups[1], 0) * Scale + FracOf(f.groups[2])>>
    ELSE <<>>

\* C20: an amount parser strips quotes, whitespace and R$; with both '.' and
\* ',' the '.' separates thousands and ',' the decimals; a lone ',' is the
\* decimal separator; a lone '.' is an ordinary decimal point; text that is
\* not a number, or empty, gives None.
C20_AmountRules ==
    recon.pc \in {"parsed", "parsed_fmt"} => recon.value = RuleAmount(recon.form)

\* ------------------------------------------------- compare_planilha.main
\* A cell is text: a sequence of pieces, each a string. A row of comparar.csv
\* is a function from its column names to cells (a dict of csv.DictReader).
MaxRefs == 2
MaxPlan == 2

\* the columns main adds to every row
OutCols == <<"classificacao", "matched_num", "matched_valor", "matched_emissao",
             "observacao">>

\* the name of the fourth column of comparar.csv
PassCols == {"centro", "observacao"}

CompHeader(p) == <<"numNotaFiscal", "Data", "Valor", p>>

\* what a reference declares: its date and its amount
Declared ==
    {[Data |-> <<"0", "5", "-", "1", "1", "-", "2", "5">>, Valor |-> <<"4", "5", ",", "0", "0">>],
     [Data |-> <<"0", "6", "-", "1", "1", "-", "2", "5">>, Valor |-> <<"1", "0", ",", "0", "0">>]}

CompRow(p, num, d) ==
    ("numNotaFiscal" :> num) @@ ("Data" :> d.Data) @@ ("Valor" :> d.Valor)
        @@ (p :> <<"R", "H">>)

CompRows(p) == {CompRow(p, num, d) : num \in RefNums, d \in Declared}

\* the rows of the planilha: numero, emissao, valor_pagar
DateOnly == [date |-> TRUE, time |-> <<>>, secs |-> FALSE]
Evening == [date |-> TRUE, time |-> <<19>>, secs |-> TRUE]
Morning == [date |-> TRUE, time |-> <<11>>, secs |-> FALSE]

PlanRow(num, t, v) == [numero |-> num, emissao |-> RenderStamp(t), valor_pagar |-> v]

PlanRows ==
    LET v45 == <<"4", "5", ",", "0", "0">>
        v150 == <<"1", "5", "0", ",", "0", "0">>
    IN {PlanRow(Str("1", "9", "5"), DateOnly, v45),
        PlanRow(Str("1", "9", "5"), Evening, v45),
        PlanRow(<<"0", "2", "0", "0", "-", "X">>, DateOnly, v45),
        PlanRow(<<"0", "2", "0", "0", "-", "X">>, Morning, <<>>),
        PlanRow(Str("2", "0", "6"), Evening, v150),
        PlanRow(Str("2", "0", "6"), Morning, <<>>)}

\* out = dict(c); out.update(u)
Update(c, u) ==
    [k \in DOMAIN c \cup DOMAIN u |-> IF k \in DOMAIN u THEN u[k] ELSE c[k]]

RECURSIVE DecStr(_)
\* str(n) for a natural number
DecStr(n) ==
    IF n < 10 THEN <<DigitChar(n)>>
    ELSE DecStr(n \div 10) \o <<DigitChar(n % 10)>>

\* str(normalize_num(matched.get('numero')) or '')
MatchedNum(num) == IF num = <<>> \/ num[1] = 0 THEN <<>> ELSE DecStr(num[1])

\* a note that says OK whatever the distance
NoteAlwaysOk(diff) == <<"OK">>

\* 'OK' if diff == 0 else f'VERIFICAR_NUMNOTA (dif={diff})'
NoteOf(diff) ==
    IF diff = 0 THEN <<"OK">>
    ELSE <<"VERIFICAR_NUMNOTA (dif=">> \o DecStr(diff) \o <<")">>

\* a label taken from the amount the reference declares
RowLabelDeclared(c, r) == Classify(ParseCurrency(c["Valor"]), r.emissao)

\* classify(parse_currency(matched.get('valor_pagar')), matched.get('emissao',''))
RowLabel(c, r) == Classify(ParseCurrency(r.valor_pagar), r.emissao)

\* the five values main computes for reference c and the match m; the
\* matched_valor of an unmatched row is '' and that of a matched row without
\* an amount is None: both are written as an empty cell
OutValues(c, m, res) ==
    IF m.idx = 0
    THEN [classificacao |-> "NAO_ENCONTRADO", matched_num |-> <<>>,
          matched_valor |-> <<>>, matched_emissao |-> <<>>,
          observacao |-> <<"NAO_ENCONTRADO">>]
    ELSE LET r == res[m.idx] IN
         [classificacao |-> RowLabel(c, r),
          matched_num |-> MatchedNum(NormalizeNum(r.numero)),
          matched_valor |-> ParseCurrency(r.valor_pagar),
          matched_emissao |-> r.emissao,
          observacao |-> NoteOf(m.diff[1])]

InitCompare ==
    /\ IdleRun
    /\ \E p \in PassCols, n \in 0..MaxRefs, k \in 0..MaxPlan :
       \E comps \in [1..n -> CompRows(p)], res \in [1..k -> PlanRows] :
          recon = [pc |-> "loop", header |-> CompHeader(p), comps |-> comps,
                   resultados |-> res, i |-> 1, matches |-> <<>>,
                   out_rows |-> <<>>, file |-> <<>>]

\* one turn of 'for c in comps'
CompareRow ==
    /\ recon.pc = "loop"
    /\ recon.i <= Len(recon.comps)
    /\ LET c == recon.comps[recon.i]
           target == NormalizeNum(c["numNotaFiscal"])
           m == FindBest(target, recon.resultados, DefaultMaxDiff)
       IN recon' = [recon EXCEPT
                      !.i = @ + 1,
                      !.matches = Append(@, m),
                      !.out_rows = Append(@, Update(c, OutValues(c, m, recon.resultados)))]
    /\ UNCHANGED <<variant, delay, workers, rows, mainpc, urls, pc, out, loc, lastRequest,
                   lock, clock, results, written, hist>>

\* after the loop: the header and one line per out_rows entry
WriteResultados ==
    /\ recon.pc = "loop"
    /\ recon.i > Len(recon.comps)
    /\ LET first == IF recon.comps # <<>> THEN recon.header
                    ELSE <<"numNotaFiscal", "Data", "Valor">>
           header == first \o OutCols
       IN recon' = [recon EXCEPT
                      !.pc = "written",
                      !.file = <<[header |-> header,
                                  rows |-> [k \in DOMAIN recon.out_rows |->
                                              [j \in DOMAIN header |->
                                                 recon.out_rows[k][header[j]]]]]>>]
    /\ UNCHANGED <<variant, delay, workers, rows, mainpc, urls, pc, out, loc, lastRequest,
                   lock, clock, results, written, hist>>

NextCompare == CompareRow \/ WriteResultados

SpecCompare == InitCompare /\ [][NextCompare]_vars

\* the references handled so far
Handled == DOMAIN recon.out_rows

\* the target number of reference k and the number of planilha row i
RefTarget(k) == NormalizeNum(recon.comps[k]["numNotaFiscal"])

PlanNum(i) == NormalizeNum(recon.resultados[i].numero)

\* C12: the match of every reference is a row with a distance d,
\* 0 <= d <= tolerance and d = |number of the row - target|, or no row and no
\* distance; it is no row for a reference without a number and for an empty
\* planilha; a reference without a row has the note and the classification
\* NAO_ENCONTRADO.
C12_MatchShape ==
    recon.pc \in {"loop", "written"} =>
        \A k \in Handled :
            LET m == recon.matches[k]
                o == recon.out_rows[k]
            IN /\ (m.idx = 0) <=> (m.diff = <<>>)
               /\ m.idx # 0 =>
                    /\ m.idx \in DOMAIN recon.resultados
                    /\ RefTarget(k) # <<>> /\ PlanNum(m.idx) # <<>>
                    /\ m.diff[1] >= 0 /\ m.diff[1] <= DefaultMaxDiff
                    /\ m.diff[1] = Abs(PlanNum(m.idx)[1] - RefTarget(k)[1])
               /\ (RefTarget(k) = <<>> \/ recon.resultados = <<>>) => m = NoMatch
               /\ m.idx = 0 =>
                    /\ o["observacao"] = <<"NAO_ENCONTRADO">>
                    /\ o["classificacao"] = "NAO_ENCONTRADO"

\* one reference matched at the tolerance itself, another has no number and
\* got NAO_ENCONTRADO
C12_Witness ==
    /\ recon.pc = "written"
    /\ \E j, k \in Handled :
         /\ recon.matches[j].diff = <<DefaultMaxDiff>>
         /\ RefTarget(k) = <<>>
         /\ recon.resultados # <<>>
         /\ recon.out_rows[k]["classificacao"] = "NAO_ENCONTRADO"

IsVerificar(note, d) ==
    /\ Len(note) >= 3
    /\ note[1] = "VERIFICAR_NUMNOTA (dif="
    /\ note[Len(note)] = ")"
    /\ \A i \in 2..(Len(note) - 1) : note[i] \in Digits
    /\ IntOf(SubSeq(note, 2, Len(note) - 1), 0) = d

\* C15: the note of every row follows from its match alone: NAO_ENCONTRADO
\* exactly without a match, OK exactly at distance 0, and
\* VERIFICAR_NUMNOTA (dif=D) with the distance D exactly for a match at a
\* distance from 1 to the tolerance.
C15_PrimaryNote ==
    recon.pc \in {"loop", "written"} =>
        \A k \in Handled :
            LET m == recon.matches[k]
                note == recon.out_rows[k]["observacao"]
            IN /\ (note = <<"NAO_ENCONTRADO">>) <=> (m.idx = 0)
               /\ (note = <<"OK">>) <=> (m.diff = <<0>>)
               /\ (m.idx # 0 /\ m.diff[1] >= 1) =>
                    /\ m.diff[1] <= DefaultMaxDiff
                    /\ IsVerificar(note, m.diff[1])
               /\ (\E d \in 0..(2 * DefaultMaxDiff) : IsVerificar(note, d)) =>
                    (m.idx # 0 /\ m.diff[1] >= 1)

\* a reference matched at distance 1 and was noted with dif=1
C15_Witness ==
    /\ recon.pc = "written"
    /\ \E k \in Handled :
         /\ recon.matches[k].diff = <<1>>
         /\ recon.out_rows[k]["observacao"] = <<"VERIFICAR_NUMNOTA (dif=", "1", ")">>

\* the amounts of a reference and of its match differ by more than this
ValDiffThreshold == 500

\* the date a Data cell 'DD-MM-YY' declares, <<>> for any other text
DeclaredDate(cell) ==
    IF Len(cell) = 8 /\ cell[3] = "-" /\ cell[6] = "-"
    THEN <<IntOf(SubSeq(cell, 1, 2), 0), IntOf(SubSeq(cell, 4, 5), 0),
           2000 + IntOf(SubSeq(cell, 7, 8), 0)>>
    ELSE <<>>

\* the date of an emissao cell 'DD/MM/YYYY...', <<>> for any other text
MatchedDate(cell) ==
    IF Len(cell) >= 10 /\ cell[3] = "/" /\ cell[6] = "/"
    THEN <<IntOf(SubSeq(cell, 1, 2), 0), IntOf(SubSeq(cell, 4, 5), 0),
           IntOf(SubSeq(cell, 7, 10), 0)>>
    ELSE <<>>

HasFlag(note, flag) == \E i \in DOMAIN note : note[i] = flag

\* C16: the note of a row has VAL_DIFF exactly when the reference matched,
\* its amount and the matched amount are both present and differ by more
\* than the threshold, and has DATE_MISMATCH exactly when the reference
\* matched, its date and the matched date are both present and differ.
C16_CrossChecks ==
    recon.pc \in {"loop", "written"} =>
        \A k \in Handled :
            LET m == recon.matches[k]
                o == recon.out_rows[k]
                own == ParseCurrency(recon.comps[k]["Valor"])
                ownDate == DeclaredDate(recon.comps[k]["Data"])
                got == o["matched_valor"]
                gotDate == MatchedDate(o["matched_emissao"])
            IN /\ HasFlag(o["observacao"], "VAL_DIFF") <=>
                    /\ m.idx # 0 /\ own # <<>> /\ got # <<>>
                    /\ Abs(own[1] - got[1]) > ValDiffThreshold
               /\ HasFlag(o["observacao"], "DATE_MISMATCH") <=>
                    /\ m.idx # 0 /\ ownDate # <<>> /\ gotDate # <<>>
                    /\ ownDate # gotDate

\* C17: the classification of a row depends on the matched row alone: two
\* references with the same document number and different declared amounts
\* and dates, compared with the same planilha, get the same classification.
C17_LabelIgnoresDeclared ==
    recon.pc \in {"loop", "written"} =>
        \A j, k \in Handled :
            recon.comps[j]["numNotaFiscal"] = recon.comps[k]["numNotaFiscal"] =>
                recon.out_rows[j]["classificacao"] = recon.out_rows[k]["classificacao"]

\* two matched references with one number declare different amounts and
\* dates and got the same meal classification
C17_Witness ==
    /\ recon.pc = "written"
    /\ \E j, k \in Handled :
         /\ recon.comps[j]["numNotaFiscal"] = recon.comps[k]["numNotaFiscal"]
         /\ recon.comps[j]["Valor"] # recon.comps[k]["Valor"]
         /\ recon.comps[j]["Data"] # recon.comps[k]["Data"]
         /\ recon.matches[j].idx # 0
         /\ recon.out_rows[j]["classificacao"] = "JANTA"
         /\ recon.out_rows[k]["classificacao"] = "JANTA"

\* C18: the file written has one line per reference loaded, in the order of
\* the references, and every column of comparar.csv holds in each line the
\* cell the reference has in it.
C18_RowsKeepReferences ==
    recon.pc = "written" =>
        LET f == recon.file[1] IN
        /\ Len(f.rows) = Len(recon.comps)
        /\ \A k \in DOMAIN recon.comps :
             \A j \in DOMAIN recon.header :
                f.rows[k][j] = recon.comps[k][recon.header[j]]

\* ------------------------------------------------ the two matchers
\* make_planilha.normalize_num_for_compare
NormalizeNumForCompare(s) ==
    LET t == Strip(s)
        run == FirstDigitRun(t)
        stripped == LStripZeros(run)
        num == IF stripped = <<>> THEN <<"0">> ELSE stripped
    IN IF t = <<>> THEN <<>>
       ELSE IF run = <<>> THEN <<>>
       ELSE <<IntOf(num, 0)>>

\* make_planilha.load_resultados: every row kept gets its number normalized
\* once (the rows here have a cell that is not blank, so none is skipped)
LoadResultados(res) ==
    [i \in DOMAIN res |-> [numero_raw |-> res[i].numero,
                           numero |-> NormalizeNumForCompare(res[i].numero)]]

RECURSIVE FirstExactMatch(_, _, _)
\* 'for row in resultados: if row['numero'] is not None and
\*  row['numero'] == target_num: return row, 0'
FirstExactMatch(loaded, target, i) ==
    IF i > Len(loaded) THEN 0
    ELSE IF loaded[i].numero # <<>> /\ loaded[i].numero = target THEN i
         ELSE FirstExactMatch(loaded, target, i + 1)

RECURSIVE NearestMatchLastTie(_, _, _, _)
\* a nearest scan over the loaded rows that replaces the kept row on an
\* equal distance
NearestMatchLastTie(loaded, target, i, acc) ==
    IF i > Len(loaded) THEN acc
    ELSE IF loaded[i].numero = <<>> THEN NearestMatchLastTie(loaded, target, i + 1, acc)
         ELSE LET diff == Abs(loaded[i].numero[1] - target[1]) IN
              IF acc.idx = 0 \/ diff <= acc.diff[1]
              THEN NearestMatchLastTie(loaded, target, i + 1,
                                       [idx |-> i, diff |-> <<diff>>])
              ELSE NearestMatchLastTie(loaded, target, i + 1, acc)

RECURSIVE NearestMatch(_, _, _, _)
\* the second loop of find_best_match
NearestMatch(loaded, target, i, acc) ==
    IF i > Len(loaded) THEN acc
    ELSE IF loaded[i].numero = <<>> THEN NearestMatch(loaded, target, i + 1, acc)
         ELSE LET diff == Abs(loaded[i].numero[1] - target[1]) IN
              IF acc.idx = 0 \/ diff < acc.diff[1]
              THEN NearestMatch(loaded, target, i + 1, [idx |-> i, diff |-> <<diff>>])
              ELSE NearestMatch(loaded, target, i + 1, acc)

\* make_planilha.find_best_match: the position of the row returned (0 for
\* None) and the distance
FindBestMatch(target, loaded, max_diff) ==
    IF target = <<>> THEN NoMatch
    ELSE LET e == FirstExactMatch(loaded, target, 1) IN
         IF e # 0 THEN [idx |-> e, diff |-> <<0>>]
         ELSE LET n == NearestMatch(loaded, target, 1, NoMatch) IN
              IF n.idx # 0 /\ n.diff # <<>> /\ n.diff[1] <= max_diff THEN n
              ELSE NoMatch

\* the raw numbers of the candidate rows: plain, padded with blanks and
\* zeros, blank, empty and without a digit
EquivNums == {Str("1", "9", "5"), Str("2", "0", "5"),
              <<" ", "0", "2", "0", "0", " ">>, <<" ", " ">>, <<>>,
              <<"n", "/", "a">>}
EquivTargets == {<<>>, <<200>>, <<210>>}
EquivDiffs == {0 - 1, 0, DefaultMaxDiff}

\* one target, one list of candidate rows and one tolerance given to both
\* matchers
InitEquiv ==
    /\ IdleRun
    /\ \E n \in 0..MaxCands :
       \E res \in [1..n -> [numero : EquivNums]], tg \in EquivTargets,
          md \in EquivDiffs :
          recon = [pc |-> "rows", target |-> tg, resultados |-> res,
                   loaded |-> <<>>, maxdiff |-> md,
                   found |-> <<>>, found_match |-> <<>>]

\* make_planilha.main: resultados = load_resultados(...)
LoadResultadosCall ==
    /\ recon.pc = "rows"
    /\ recon' = [recon EXCEPT !.pc = "loaded",
                              !.loaded = LoadResultados(recon.resultados)]
    /\ UNCHANGED <<variant, delay, workers, rows, mainpc, urls, pc, out, loc, lastRequest,
                   lock, clock, results, written, hist>>

\* compare_planilha.find_best(target, resultados, maxdiff) over the rows as
\* read
FindBestCall ==
    /\ recon.pc = "loaded"
    /\ recon.found = <<>>
    /\ recon' = [recon EXCEPT !.found =
                    <<FindBest(recon.target, recon.resultados, recon.maxdiff)>>]
    /\ UNCHANGED <<variant, delay, workers, rows, mainpc, urls, pc, out, loc, lastRequest,
                   lock, clock, results, written, hist>>

\* make_planilha.find_best_match(target, resultados, max_diff) over the rows
\* as loaded
FindBestMatchCall ==
    /\ recon.pc = "loaded"
    /\ recon.found_match = <<>>
    /\ recon' = [recon EXCEPT !.found_match =
                    <<FindBestMatch(recon.target, recon.loaded, recon.maxdiff)>>]
    /\ UNCHANGED <<variant, delay, workers, rows, mainpc, urls, pc, out, loc, lastRequest,
                   lock, clock, results, written, hist>>

NextEquiv == LoadResultadosCall \/ FindBestCall \/ FindBestMatchCall

SpecEquiv == InitEquiv /\ [][NextEquiv]_vars

\* both matchers have answered
BothFound == recon.pc = "loaded" /\ recon.found # <<>> /\ recon.found_match # <<>>

\* C28: for every target, every list of raw numbers and every tolerance,
\* find_best over the raw rows and find_best_match over the rows normalized
\* at load return the same position and the same distance.
C28_MatchersAgree ==
    BothFound =>
        /\ recon.found[1].idx = recon.found_match[1].idx
        /\ recon.found[1].diff = recon.found_match[1].diff

\* both matchers returned the first of two candidates tied at the
\* tolerance, past a blank candidate
C28_Witness ==
    /\ BothFound
    /\ recon.found[1].idx = 2
    /\ recon.found_match[1] = [idx |-> 2, diff |-> <<DefaultMaxDiff>>]
    /\ Len(recon.resultados) = 3
    /\ Strip(recon.resultados[1].numero) = <<>>
    /\ recon.loaded[3].numero # <<>>
    /\ Abs(recon.loaded[3].numero[1] - recon.target[1]) = DefaultMaxDiff

\* ------------------------------------- from the fetches to the comparison
\* the most targets of a run that is followed to the comparison
MaxDocs == 2

\* what fetch_url extracts from the document of a target: numero, emissao,
\* valor_pagar; the three are '' when the fetch fails
NoDoc == [numero |-> <<>>, emissao |-> <<>>, valor_pagar |-> <<>>]

Docs ==
    {PlanRow(Str("2", "0", "0"), Evening, <<"4", "5", ",", "0", "0">>),
     PlanRow(Str("2", "0", "0"), Morning, <<"1", "5", "0", ",", "0", "0">>),
     PlanRow(Str("1", "9", "5"), Evening, <<"4", "5", ",", "0", "0">>),
     PlanRow(Str("2", "0", "5"), Morning, <<"1", "5", "0", ",", "0", "0">>),
     PlanRow(Str("0", "0", "0"), Evening, <<"4", "5", ",", "0", "0">>),
     NoDoc}

\* the references: the numbers 200 and 3
DocRefs ==
    {CompRow("centro", num,
             [Data |-> <<"0", "5", "-", "1", "1", "-", "2", "5">>,
              Valor |-> <<"4", "5", ",", "0", "0">>]) :
        num \in {Str("2", "0", "0"), <<"3">>}}

\* csv.DictReader(f, skipinitialspace=True) and the test of load_csv_rows:
\* blanks after a delimiter are dropped, a row of blank cells is skipped
LoadCell(c) == LStrip(c)

IsBlankRow(r) ==
    /\ Strip(r.numero) = <<>>
    /\ Strip(r.emissao) = <<>>
    /\ Strip(r.valor_pagar) = <<>>

LoadCsvRows(file) ==
    LET read == [k \in DOMAIN file |->
                   [numero |-> LoadCell(file[k].numero),
                    emissao |-> LoadCell(file[k].emissao),
                    valor_pagar |-> LoadCell(file[k].valor_pagar)]]
    IN SelectSeq(read, LAMBDA r : ~IsBlankRow(r))

\* the targets in submission order with the documents they serve, and the
\* references of comparar.csv
InitPipeline ==
    /\ IdleRun
    /\ \E n \in 1..MaxDocs, m \in 1..MaxRefs :
       \E docs \in [1..n -> Docs], comps \in [1..m -> DocRefs] :
          recon = [pc |-> "fetching", docs |-> docs, completed |-> <<>>,
                   planilha |-> <<>>, header |-> CompHeader("centro"),
                   comps |-> comps, resultados |-> <<>>, i |-> 1,
                   matches |-> <<>>, out_rows |-> <<>>, file |-> <<>>]

\* qr_crawler.main: 'for fut in as_completed(futures): results.append(res)':
\* any call that has not been collected yet completes next
CompleteFetch ==
    /\ recon.pc = "fetching"
    /\ \E t \in DOMAIN recon.docs :
         /\ \A k \in DOMAIN recon.completed : recon.completed[k] # t
         /\ recon' = [recon EXCEPT !.completed = Append(@, t)]
    /\ UNCHANGED <<variant, delay, workers, rows, mainpc, urls, pc, out, loc, lastRequest,
                   lock, clock, results, written, hist>>

\* qr_crawler.write_outputs_seq: one line per result, in the order of results
WritePlanilha ==
    /\ recon.pc = "fetching"
    /\ Len(recon.completed) = Len(recon.docs)
    /\ recon' = [recon EXCEPT !.pc = "planilha",
                              !.planilha = [k \in DOMAIN recon.completed |->
                                              recon.docs[recon.completed[k]]]]
    /\ UNCHANGED <<variant, delay, workers, rows, mainpc, urls, pc, out, loc, lastRequest,
                   lock, clock, results, written, hist>>

\* compare_planilha.main: resultados = load_csv_rows(args.planilha)
LoadPlanilha ==
    /\ recon.pc = "planilha"
    /\ recon' = [recon EXCEPT !.pc = "loop",
                              !.resultados = LoadCsvRows(recon.planilha)]
    /\ UNCHANGED <<variant, delay, workers, rows, mainpc, urls, pc, out, loc, lastRequest,
                   lock, clock, results, written, hist>>

NextPipeline ==
    \/ CompleteFetch
    \/ WritePlanilha
    \/ LoadPlanilha
    \/ CompareRow
    \/ WriteResultados

SpecPipeline == InitPipeline /\ [][NextPipeline]_vars

\* the record a match stands for, None without one
MatchedRecord(m, res) == IF m.idx = 0 THEN <<>> ELSE <<res[m.idx]>>

\* the planilha rows when the fetches complete in submission order
InOrderRows == LoadCsvRows(recon.docs)

\* C25: whatever the order in which the fetches completed, the record matched
\* to every reference is the record matched when they complete in submission
\* order, also with two records of one number or two records tied at the
\* smallest distance.
C25_MatchIgnoresCompletionOrder ==
    recon.pc \in {"loop", "written"} =>
        \A k \in Handled :
            MatchedRecord(recon.matches[k], recon.resultados) =
                MatchedRecord(FindBest(RefTarget(k), InOrderRows, DefaultMaxDiff),
                              InOrderRows)

\* C29: matched_num of a matched row is the decimal text of the number of
\* the matched record, 0 included, and it is empty on an unmatched row.
C29_MatchedNumRendered ==
    recon.pc \in {"loop", "written"} =>
        \A k \in Handled :
            IF recon.matches[k].idx = 0
            THEN recon.out_rows[k]["matched_num"] = <<>>
            ELSE recon.out_rows[k]["matched_num"] =
                    DecStr(PlanNum(recon.matches[k].idx)[1])

====
